---- MODULE Spec2Model ----
(***************************************************************************)
(* Leave-day scheduling for a hair salon: the availability / quota engine  *)
(* (lib/quota.ts) and the leave-request operations that read and write the *)
(* LeaveRequest, Approval and Binding tables.                              *)
(*                                                                         *)
(* Numbers: supply and demand weights are kept in tenths (1.0 -> 10), the  *)
(* safety factor in tenths (1.1 -> 11), so remainingQuota is in hundredths.*)
(* Dates: one month is modelled; a date is its day-of-month number.        *)
(***************************************************************************)
EXTENDS Integers, Sequences, FiniteSets, TLC

VARIABLES
    store,          \* Store row: [timezone], the UTC offset in hours
    config,         \* Config table: key -> row value (tagged) or no row
    users,          \* User table: id -> [role, active, baseDemand, baseSupply]
    leaveRequest,   \* LeaveRequest table: id -> row, over the ids of its rows
    approval,       \* Approval table: sequence of rows, in insertion order
    binding,        \* Binding table: the active rows [assistantId, designerId]
    bindingInactive,  \* Binding table: the rows with active = false
    demandOverride, \* DesignerDemandOverride table: rows [designerId, date, demand]
    rookieBooking,  \* RookieBooking table: set of <<rookieId, date>> having a booking
    todayDay,       \* day-of-month of "now" in the store's time zone
    session,        \* in-flight HTTP requests / server actions: slot -> frame
    result          \* the last value returned by getMonthAvailability

vars == <<store, config, users, leaveRequest, approval, binding, bindingInactive,
          demandOverride, rookieBooking, todayDay, session, result>>

----------------------------------------------------------------------------
(* Bounds of the model *)

\* number of days of the modelled month that are iterated
DaysInMonth == 7
\* ids available for the rows of one (userId, date): more than the one row
\* the unique index LeaveRequest(userId, date) admits
IdsPerKey == 2
\* most rows the Approval table may hold
MaxApprovals == 2

----------------------------------------------------------------------------
(* Enumerations (prisma enums) *)

Roles == {"DESIGNER", "ASSISTANT", "ROOKIE", "MANAGER"}
Statuses == {"PENDING", "APPROVED", "REJECTED", "CANCELED"}
Sources == {"SELF", "BINDING_MIRROR", "MANAGER", "SYSTEM"}
ApprovalActions == {"APPROVE", "REJECT", "FORCE_APPROVE"}

\* roster of the modelled store
UserIds == {"m", "d1", "d2", "a1", "r1"}
\* absent user reference (createdByUserId NULL)
NoUser == "none"
\* absent row reference (linkedToId NULL, findFirst returning null)
NoId == 0

Dates == 1..DaysInMonth

\* the (userId, date) pairs leave rows are written for; a date is a day of
\* the month
LeaveKeys == << <<"d1", 3>>, <<"a1", 3>>, <<"d2", 3>>, <<"r1", 3>> >>

\* Row ids are opaque strings (cuid) in the program.  The model numbers them:
\* the ids of the rows of LeaveKeys[k] are (k-1)*IdsPerKey+1 .. k*IdsPerKey.
IdSpace == 1..(Len(LeaveKeys) * IdsPerKey)
idsOfKey(k) == ((k - 1) * IdsPerKey + 1)..(k * IdsPerKey)

\* tagged optional number (number | null column)
Null == [set |-> FALSE, v |-> 0]
Num(n) == [set |-> TRUE, v |-> n]

\* Config.valueJson after JSON.parse: the type of `value` and the value
NoRow == [t |-> "none"]
CfgNum(n) == [t |-> "number", n |-> n]
CfgBool(b) == [t |-> "boolean", b |-> b]
CfgStr(s) == [t |-> "string", s |-> s]
\* a string holding a comma-separated list: the days of the month whose ISO
\* date it lists, and the weekday codes its tokens upper-case to
CfgList(days, wds) == [t |-> "string", s |-> "list", days |-> days, wds |-> wds]

ConfigKeys == {"safety_factor", "assistant_supply", "rookie_support_supply",
               "rookie_guest_supply", "designer_default_demand",
               "closed_dates", "closed_weekdays",
               "phase1_start_day", "phase1_end_day", "phase2_start_day", "phase2_end_day",
               "assistant_block_saturday", "assistant_block_if_master_working",
               "rookie_any_booking_supply_zero", "binding_mirror_leave"}

----------------------------------------------------------------------------
(* lib/config.ts *)

getNumberConfig(key, fallback) ==
    IF config[key].t = "number" THEN config[key].n ELSE fallback

getBooleanConfig(key, fallback) ==
    IF config[key].t = "boolean" THEN config[key].b ELSE fallback

getStringConfig(key, fallback) ==
    IF config[key].t = "string" THEN config[key].s ELSE fallback

----------------------------------------------------------------------------
(* lib/date.ts *)

WeekdayCodes == <<"SUN", "MON", "TUE", "WED", "THU", "FRI", "SAT">>

\* weekday (1 = Sunday) of the first day of the modelled month, 2026-11
FirstWeekday == 1

\* calendar weekday index of a day of the month
CalendarWeekday(d) == ((FirstWeekday - 1 + d - 1) % 7) + 1

\* The instant formatted is 12:00 UTC of the date; a zone at UTC+12 or more
\* already shows the next calendar day.
weekdayInTimeZone(tz, d) ==
    LET shift == IF 12 + tz >= 24 THEN 1 ELSE 0
    IN  WeekdayCodes[((FirstWeekday - 1 + d - 1 + shift) % 7) + 1]

daysInMonth == DaysInMonth

----------------------------------------------------------------------------
(* lib/quota.ts *)

isOffStatus(status) == status = "PENDING" \/ status = "APPROVED"

RECURSIVE SumOver(_, _)
\* reduce((acc, u) => acc + w[u], 0) over the users in S
SumOver(w, S) ==
    IF S = {} THEN 0
    ELSE LET u == CHOOSE x \in S : TRUE
         IN  w[u] + SumOver(w, S \ {u})

\* the ids of the rows of the table
LeaveIds == DOMAIN leaveRequest

ActiveUsers == {u \in UserIds : users[u].active}

\* rows of the month with status in (PENDING, APPROVED)
OffRows == {i \in LeaveIds : leaveRequest[i].status \in {"PENDING", "APPROVED"}}

\* mutant: only approved leave counts as off
offByUserDateApprovedOnly(u, d) ==
    \E i \in DOMAIN leaveRequest : /\ leaveRequest[i].status = "APPROVED"
                                    /\ leaveRequest[i].userId = u /\ leaveRequest[i].date = d

\* offByUserDate.has(`${userId}:${date}`)
offByUserDate(u, d) ==
    \E i \in OffRows : /\ isOffStatus(leaveRequest[i].status)
                        /\ leaveRequest[i].userId = u /\ leaveRequest[i].date = d

\* mutant: cancelable does not look at who created the row
myLeaveByDateAnyCreator(requester, d) ==
    LET mine == {i \in OffRows : leaveRequest[i].userId = requester.userId
                                 /\ leaveRequest[i].date = d}
    IN  IF mine = {} THEN [found |-> FALSE, status |-> "null", cancelable |-> FALSE]
        ELSE LET i == CHOOSE x \in mine : \A y \in mine : y <= x
                 st == IF leaveRequest[i].status = "APPROVED" THEN "APPROVED" ELSE "PENDING"
             IN  [found |-> TRUE, status |-> st, cancelable |-> (st = "PENDING")]

\* myLeaveByDate.get(date): the map keeps the last row set for the date
myLeaveByDate(requester, d) ==
    LET mine == {i \in OffRows : leaveRequest[i].userId = requester.userId
                                 /\ leaveRequest[i].date = d}
    IN  IF mine = {} THEN [found |-> FALSE, status |-> "null", cancelable |-> FALSE]
        ELSE LET i == CHOOSE x \in mine : \A y \in mine : y <= x
                 st == IF leaveRequest[i].status = "APPROVED" THEN "APPROVED" ELSE "PENDING"
             IN  [found |-> TRUE, status |-> st,
                  cancelable |-> (st = "PENDING"
                                  /\ leaveRequest[i].createdByUserId = requester.userId)]

RECURSIVE offUsersFrom(_, _, _)
\* offUsersByDate.get(date): rows in id order, one entry per userId
offUsersFrom(i, d, acc) ==
    IF i \notin IdSpace THEN acc
    ELSE IF i \in OffRows /\ leaveRequest[i].date = d
            /\ ~(\E k \in 1..Len(acc) : acc[k].userId = leaveRequest[i].userId)
         THEN offUsersFrom(i + 1, d,
                  Append(acc, [userId |-> leaveRequest[i].userId,
                               role |-> users[leaveRequest[i].userId].role,
                               status |-> IF leaveRequest[i].status = "APPROVED"
                                          THEN "APPROVED" ELSE "PENDING"]))
         ELSE offUsersFrom(i + 1, d, acc)

bindingsForAssistant(requester) ==
    IF requester.role = "ASSISTANT"
       /\ getBooleanConfig("assistant_block_if_master_working", TRUE)
    THEN {b \in binding : b.assistantId = requester.userId}
    ELSE {}

\* new Set(raw.split(",").map(trim).filter(ISO date)), as days of the month
closedDates ==
    IF getStringConfig("closed_dates", "") = "list" THEN config["closed_dates"].days ELSE {}

\* new Set(raw.split(",").map(trim + upper-case).filter(weekday code))
closedWeekdays ==
    IF getStringConfig("closed_weekdays", "") = "list" THEN config["closed_weekdays"].wds ELSE {}

assistantWeight(u) ==
    IF users[u].baseSupply.set THEN users[u].baseSupply.v
    ELSE getNumberConfig("assistant_supply", 10)

\* mutant: the per-user baseSupply wins over the booking rule
rookieWeightOverrideFirst(u, d) ==
    IF users[u].baseSupply.set THEN users[u].baseSupply.v
    ELSE IF <<u, d>> \in rookieBooking /\ getBooleanConfig("rookie_any_booking_supply_zero", TRUE)
    THEN getNumberConfig("rookie_guest_supply", 0)
    ELSE getNumberConfig("rookie_support_supply", 7)

rookieWeight(u, d) ==
    LET hasBooking == <<u, d>> \in rookieBooking
        supportWeight == IF users[u].baseSupply.set THEN users[u].baseSupply.v
                         ELSE getNumberConfig("rookie_support_supply", 7)
    IN  IF hasBooking /\ getBooleanConfig("rookie_any_booking_supply_zero", TRUE)
        THEN getNumberConfig("rookie_guest_supply", 0)
        ELSE supportWeight

\* mutant: an override of 0 is taken for no override (override || base)
designerWeightFalsyOverride(u, d) ==
    LET override == {o \in demandOverride : o.designerId = u /\ o.date = d /\ o.demand # 0}
        base == IF users[u].baseDemand.set THEN users[u].baseDemand.v
                ELSE getNumberConfig("designer_default_demand", 10)
    IN  IF override # {} THEN (CHOOSE o \in override : TRUE).demand ELSE base

designerWeight(u, d) ==
    LET override == {o \in demandOverride : o.designerId = u /\ o.date = d}
        base == IF users[u].baseDemand.set THEN users[u].baseDemand.v
                ELSE getNumberConfig("designer_default_demand", 10)
    IN  IF override # {} THEN (CHOOSE o \in override : TRUE).demand ELSE base

\* the users of a role that the reduce does not skip on date d
Working(role, d) ==
    {u \in ActiveUsers : users[u].role = role /\ ~offByUserDate(u, d)}

assistantSupplySum(d) ==
    SumOver([u \in Working("ASSISTANT", d) |-> assistantWeight(u)], Working("ASSISTANT", d))

rookieSupplySum(d) ==
    SumOver([u \in Working("ROOKIE", d) |-> rookieWeight(u, d)], Working("ROOKIE", d))

designerDemandSum(d) ==
    SumOver([u \in Working("DESIGNER", d) |-> designerWeight(u, d)], Working("DESIGNER", d))

\* mutant: the safety factor is not applied
remainingQuotaNoFactor(aS, rS, dD, sf) == (aS + rS) * 10 - dD * 10

\* supply is in tenths, demand * safetyFactor in hundredths
remainingQuotaOf(aS, rS, dD, sf) == (aS + rS) * 10 - dD * sf

inDesignerWindow ==
    todayDay >= getNumberConfig("phase1_start_day", 1)
    /\ todayDay <= getNumberConfig("phase1_end_day", 5)

inAssistantWindow ==
    todayDay >= getNumberConfig("phase2_start_day", 6)
    /\ todayDay <= getNumberConfig("phase2_end_day", 31)

\* mutant: a designer is gated by the phase 1 window alone
phaseLockedPhase1Only(role) ==
    \/ role = "DESIGNER" /\ ~inDesignerWindow
    \/ role \in {"ASSISTANT", "ROOKIE"} /\ ~inAssistantWindow

phaseLocked(role) ==
    \/ role = "DESIGNER" /\ ~inDesignerWindow /\ ~inAssistantWindow
    \/ role \in {"ASSISTANT", "ROOKIE"} /\ ~inAssistantWindow

\* mutant: a full quota blocks designers too
quotaBlocksAll(role) == TRUE

\* if (remainingQuota < 0): only a non-designer loses selectable
quotaBlocks(role) == role # "DESIGNER"

saturdayBlocked(requester, d) ==
    /\ requester.role = "ASSISTANT"
    /\ getBooleanConfig("assistant_block_saturday", TRUE)
    /\ weekdayInTimeZone(store.timezone, d) = "SAT"

\* mutant: the block needs every bound designer to be working
masterWorkingBlockedIfAll(requester, d) ==
    /\ requester.role = "ASSISTANT"
    /\ getBooleanConfig("assistant_block_if_master_working", TRUE)
    /\ bindingsForAssistant(requester) # {}
    /\ \A b \in bindingsForAssistant(requester) : ~offByUserDate(b.designerId, d)

masterWorkingBlocked(requester, d) ==
    /\ requester.role = "ASSISTANT"
    /\ getBooleanConfig("assistant_block_if_master_working", TRUE)
    /\ bindingsForAssistant(requester) # {}
    /\ \E b \in bindingsForAssistant(requester) : ~offByUserDate(b.designerId, d)

\* mutant: a rule that does not block sets selectable back to true
GateLastWins(acc, cond, blocks, code) ==
    IF cond
    THEN [selectable |-> ~blocks, reasons |-> Append(acc.reasons, code)]
    ELSE acc

\* if (cond) { if (blocks) selectable = false; reasons.push(code) }
Gate(acc, cond, blocks, code) ==
    IF cond
    THEN [selectable |-> IF blocks THEN FALSE ELSE acc.selectable,
          reasons |-> Append(acc.reasons, code)]
    ELSE acc

\* the chain of if-statements that sets selectable and reasons
Verdict(requester, d, isStoreClosed, remainingQuota) ==
    LET g0 == [selectable |-> TRUE, reasons |-> <<>>]
        g1 == Gate(g0, phaseLocked(requester.role), TRUE, "PHASE_LOCK")
        g2 == Gate(g1, isStoreClosed, TRUE, "STORE_CLOSED")
        g3 == Gate(g2, remainingQuota < 0, quotaBlocks(requester.role), "QUOTA_FULL")
        g4 == Gate(g3, saturdayBlocked(requester, d), TRUE, "SATURDAY_BLOCK")
        g5 == Gate(g4, masterWorkingBlocked(requester, d), TRUE, "MASTER_WORKING_BLOCK")
    IN  g5

\* one iteration of the loop over the days of the month
AvailabilityDay(requester, d) ==
    LET safetyFactor == getNumberConfig("safety_factor", 11)
        isStoreClosed == d \in closedDates
                         \/ weekdayInTimeZone(store.timezone, d) \in closedWeekdays
        aS == assistantSupplySum(d)
        rS == rookieSupplySum(d)
        dD == designerDemandSum(d)
        remainingQuota == remainingQuotaOf(aS, rS, dD, safetyFactor)
        verdict == Verdict(requester, d, isStoreClosed, remainingQuota)
        mine == myLeaveByDate(requester, d)
    IN  [date |-> d,
         remainingQuota |-> remainingQuota,
         assistantSupply |-> aS,
         rookieSupply |-> rS,
         designerDemand |-> dD,
         safetyFactor |-> safetyFactor,
         selectable |-> verdict.selectable,
         reasons |-> verdict.reasons,
         myLeaveStatus |-> mine.status,
         myLeaveCancelable |-> mine.cancelable,
         offUsers |-> offUsersFrom(1, d, <<>>)]

getMonthAvailability(requester) ==
    [called |-> TRUE, requester |-> requester,
     days |-> [d \in 1..daysInMonth |-> AvailabilityDay(requester, d)]]

\* no call yet
NoResult == [called |-> FALSE, requester |-> [userId |-> NoUser, role |-> "MANAGER"],
             days |-> <<>>]

----------------------------------------------------------------------------
(* Tables: helpers for the prisma calls *)

\* LeaveRequest_userId_date_key: the row of (userId, date), NoId when none.
\* With the unique index there is at most one; findFirst returns one of them.
findLeave(u, d) ==
    LET hit == {i \in LeaveIds : leaveRequest[i].userId = u /\ leaveRequest[i].date = d}
    IN  IF hit = {} THEN NoId ELSE CHOOSE i \in hit : \A j \in hit : i <= j

\* a fresh id for a new row of (u, d): the first unused one of its range
freshId(u, d) ==
    LET k == CHOOSE x \in 1..Len(LeaveKeys) : LeaveKeys[x] = <<u, d>>
        free == {i \in idsOfKey(k) : i \notin LeaveIds}
    IN  IF free = {} THEN NoId ELSE CHOOSE i \in free : \A j \in free : i <= j

\* leaveRequest.create({ data: row })
createLeave(tbl, id, row) == tbl @@ (id :> row)

\* mutant: no unique index on (userId, date)
UniqueOkNoIndex(u, d) == TRUE

\* the unique index LeaveRequest(userId, date) accepts an insert of (u, d)
UniqueOk(u, d) ==
    \A i \in LeaveIds : ~(leaveRequest[i].userId = u /\ leaveRequest[i].date = d)

NewLeave(u, d, status, source, by, link) ==
    [userId |-> u, date |-> d, status |-> status, source |-> source,
     createdByUserId |-> by, linkedToId |-> link]

\* relation linkedFrom of row id: the rows whose linkedToId is id
linkedFrom(id) == {i \in LeaveIds : leaveRequest[i].linkedToId = id}

\* seed: the current config rows written by the seed script
SeedConfig ==
    [k \in ConfigKeys |->
        CASE k = "safety_factor" -> CfgNum(11)
          [] k = "assistant_supply" -> CfgNum(10)
          [] k = "rookie_support_supply" -> CfgNum(7)
          [] k = "rookie_guest_supply" -> CfgNum(0)
          [] k = "designer_default_demand" -> CfgNum(3)
          [] k = "phase1_start_day" -> CfgNum(1)
          [] k = "phase1_end_day" -> CfgNum(5)
          [] k = "phase2_start_day" -> CfgNum(6)
          [] k = "assistant_block_saturday" -> CfgBool(TRUE)
          [] k = "assistant_block_if_master_working" -> CfgBool(TRUE)
          [] k = "binding_mirror_leave" -> CfgStr("auto_create")
          [] k = "rookie_any_booking_supply_zero" -> CfgBool(TRUE)
          [] OTHER -> NoRow]

\* seed: one manager, designers, one assistant (baseSupply 1), rookies (baseSupply 0.7)
SeedUsers ==
    [u \in UserIds |->
        CASE u = "m" -> [role |-> "MANAGER", active |-> TRUE, baseDemand |-> Null, baseSupply |-> Null]
          [] u \in {"d1", "d2"} -> [role |-> "DESIGNER", active |-> TRUE, baseDemand |-> Null, baseSupply |-> Null]
          [] u = "a1" -> [role |-> "ASSISTANT", active |-> TRUE, baseDemand |-> Null, baseSupply |-> Num(10)]
          [] OTHER -> [role |-> "ROOKIE", active |-> TRUE, baseDemand |-> Null, baseSupply |-> Num(7)]]

\* seed: the first designer is bound to the assistant
SeedBinding == {[assistantId |-> "a1", designerId |-> "d1"]}

----------------------------------------------------------------------------
(* Sessions: the requests in flight.  Every await of a handler that reads or *)
(* writes the database is one step; a prisma.$transaction callback is one.  *)

Sessions == {"s1", "s2"}

\* the users whose leave is requested, cancelled or forced, and the dates
Requesters == {"d1", "a1"}
ReqDates == {3}

Idle == [op |-> "idle", pc |-> "idle", user |-> NoUser, date |-> 0, id |-> NoId,
         act |-> "", todo |-> {}, cur |-> NoUser, curId |-> NoId, parent |-> NoId,
         res |-> ""]

\* the handler has returned (or thrown) `res`
Done(f, res) == [Idle EXCEPT !.op = f.op, !.pc = "done", !.user = f.user,
                             !.date = f.date, !.res = res]

\* manager decisions and force-leaves in flight (each inserts one Approval row)
PendingApprovals == Cardinality({s \in Sessions : session[s].op \in {"DECIDE", "FORCE"}
                                                   /\ session[s].pc # "done"})

UnchangedData == UNCHANGED <<store, config, users, demandOverride, rookieBooking, todayDay, result,
                             bindingInactive>>

Init ==
    /\ store = [timezone |-> 8]
    /\ config = SeedConfig
    /\ users = SeedUsers
    /\ leaveRequest = <<>>
    /\ approval = <<>>
    /\ binding = SeedBinding
    /\ bindingInactive = {}
    /\ demandOverride = {}
    /\ rookieBooking = {}
    /\ todayDay = 6
    /\ session = [s \in Sessions |-> Idle]
    /\ result = NoResult

----------------------------------------------------------------------------
(* POST /api/leave : self-request *)

\* prisma.leaveRequest.update({ where: { id }, data }) of status, source, creator
reviveSelf(tbl, id, u) ==
    [tbl EXCEPT ![id].status = "PENDING", ![id].source = "SELF", ![id].createdByUserId = u]

\* mutant: the re-used row keeps the link it had
reviveMirrorKeepLink(tbl, id, by, parent) ==
    [tbl EXCEPT ![id].status = "PENDING", ![id].source = "BINDING_MIRROR",
                ![id].createdByUserId = by]

\* update of the assistant's row to a mirror of row `parent`
reviveMirror(tbl, id, by, parent) ==
    [tbl EXCEPT ![id].status = "PENDING", ![id].source = "BINDING_MIRROR",
                ![id].createdByUserId = by, ![id].linkedToId = parent]

\* mutant: only a PENDING request counts as already requested
alreadyRequestedPendingOnly(existingAny) ==
    existingAny # NoId /\ leaveRequest[existingAny].status = "PENDING"

\* existingAny && (status === "PENDING" || status === "APPROVED")
alreadyRequested(existingAny) ==
    existingAny # NoId /\ leaveRequest[existingAny].status \in {"PENDING", "APPROVED"}

\* request arrives: the handler reads existingAny
PostBegin(s, u, d) ==
    /\ session[s].pc = "idle"
    /\ u \in Requesters /\ d \in ReqDates
    /\ LET existingAny == findLeave(u, d)
           f == [Idle EXCEPT !.op = "POST", !.user = u, !.date = d]
       IN  session' = [session EXCEPT ![s] =
                IF alreadyRequested(existingAny)
                THEN Done(f, "ALREADY_REQUESTED")
                ELSE [f EXCEPT !.pc = "avail", !.id = existingAny]]
    /\ UNCHANGED <<leaveRequest, approval, binding>>
    /\ UnchangedData

\* getMonthAvailability and the selectable check of the requested day
PostAvailability(s) ==
    /\ session[s].op = "POST" /\ session[s].pc = "avail"
    /\ LET f == session[s]
           requester == [userId |-> f.user, role |-> users[f.user].role]
           day == getMonthAvailability(requester).days[f.date]
       IN  session' = [session EXCEPT ![s] =
                IF ~day.selectable THEN Done(f, "NOT_ALLOWED")
                ELSE [f EXCEPT !.pc = "write"]]
    /\ UNCHANGED <<leaveRequest, approval, binding>>
    /\ UnchangedData

\* after the requester's own row is written
AfterOwnWrite(f, id) ==
    IF users[f.user].role = "DESIGNER"
    THEN [f EXCEPT !.pc = "bindings", !.parent = id]
    ELSE Done(f, "OK")

\* leaveRequest.update of the row read earlier, or leaveRequest.create
PostWrite(s) ==
    /\ session[s].op = "POST" /\ session[s].pc = "write"
    /\ LET f == session[s]
       IN  IF f.id # NoId
           THEN /\ leaveRequest' = reviveSelf(leaveRequest, f.id, f.user)
                /\ session' = [session EXCEPT ![s] = AfterOwnWrite(f, f.id)]
           ELSE IF UniqueOk(f.user, f.date)
           THEN /\ freshId(f.user, f.date) # NoId
                /\ leaveRequest' = createLeave(leaveRequest, freshId(f.user, f.date),
                        NewLeave(f.user, f.date, "PENDING", "SELF", f.user, NoId))
                /\ session' = [session EXCEPT ![s] = AfterOwnWrite(f, freshId(f.user, f.date))]
           ELSE \* unique constraint violation: the handler throws
                /\ leaveRequest' = leaveRequest
                /\ session' = [session EXCEPT ![s] = Done(f, "ERROR")]
    /\ UNCHANGED <<approval, binding>>
    /\ UnchangedData

\* designer: read binding_mirror_leave, then the designer's active bindings
PostBindings(s) ==
    /\ session[s].op = "POST" /\ session[s].pc = "bindings"
    /\ LET f == session[s]
           bindings == {b.assistantId : b \in {x \in binding : x.designerId = f.user}}
       IN  session' = [session EXCEPT ![s] =
                IF getStringConfig("binding_mirror_leave", "auto_create") = "auto_create"
                   /\ bindings # {}
                THEN [f EXCEPT !.pc = "mirror", !.todo = bindings]
                ELSE Done(f, "OK")]
    /\ UNCHANGED <<leaveRequest, approval, binding>>
    /\ UnchangedData

\* loop head: next binding (in the order the query returned), read assistantExisting
PostMirrorFind(s) ==
    /\ session[s].op = "POST" /\ session[s].pc = "mirror"
    /\ LET f == session[s]
       IN  \E a \in f.todo :
             LET assistantExisting == findLeave(a, f.date)
                 rest == f.todo \ {a}
             IN  session' = [session EXCEPT ![s] =
                    IF assistantExisting # NoId
                       /\ leaveRequest[assistantExisting].status \in {"PENDING", "APPROVED"}
                    THEN \* continue
                         IF rest = {} THEN Done(f, "OK") ELSE [f EXCEPT !.todo = rest]
                    ELSE [f EXCEPT !.pc = "mirrorWrite", !.todo = rest, !.cur = a,
                                   !.curId = assistantExisting]]
    /\ UNCHANGED <<leaveRequest, approval, binding>>
    /\ UnchangedData

\* loop body: update the assistant's old row, or create the mirror row
PostMirrorWrite(s) ==
    /\ session[s].op = "POST" /\ session[s].pc = "mirrorWrite"
    /\ LET f == session[s]
           next == IF f.todo = {} THEN Done(f, "OK")
                   ELSE [f EXCEPT !.pc = "mirror", !.cur = NoUser, !.curId = NoId]
       IN  IF f.curId # NoId
           THEN /\ leaveRequest' = reviveMirror(leaveRequest, f.curId, f.user, f.parent)
                /\ session' = [session EXCEPT ![s] = next]
           ELSE IF UniqueOk(f.cur, f.date)
           THEN /\ freshId(f.cur, f.date) # NoId
                /\ leaveRequest' = createLeave(leaveRequest, freshId(f.cur, f.date),
                        NewLeave(f.cur, f.date, "PENDING", "BINDING_MIRROR", f.user, f.parent))
                /\ session' = [session EXCEPT ![s] = next]
           ELSE \* unique constraint violation: the handler throws, the loop is abandoned
                /\ leaveRequest' = leaveRequest
                /\ session' = [session EXCEPT ![s] = Done(f, "ERROR")]
    /\ UNCHANGED <<approval, binding>>
    /\ UnchangedData

----------------------------------------------------------------------------
(* DELETE /api/leave : self-cancel *)

\* mutant: the creator of the found row is not compared with the caller
cancelErrorCreatorUnchecked(hit, u) ==
    IF hit = {} THEN "NOT_FOUND"
    ELSE LET existing == CHOOSE i \in hit : \A j \in hit : i <= j
         IN  IF leaveRequest[existing].status # "PENDING" THEN "NOT_CANCELABLE"
             ELSE ""

\* the three early returns after findFirst; "" when the handler goes on
cancelError(hit, u) ==
    IF hit = {} THEN "NOT_FOUND"
    ELSE LET existing == CHOOSE i \in hit : \A j \in hit : i <= j
         IN  IF leaveRequest[existing].createdByUserId # u THEN "FORBIDDEN"
             ELSE IF leaveRequest[existing].status # "PENDING" THEN "NOT_CANCELABLE"
             ELSE ""

\* findFirst of the user's PENDING or APPROVED row of the date, and the checks
DeleteBegin(s, u, d) ==
    /\ session[s].pc = "idle"
    /\ u \in Requesters /\ d \in ReqDates
    /\ LET hit == {i \in LeaveIds : /\ leaveRequest[i].userId = u
                                    /\ leaveRequest[i].date = d
                                    /\ leaveRequest[i].status \in {"PENDING", "APPROVED"}}
           f == [Idle EXCEPT !.op = "DELETE", !.user = u, !.date = d]
       IN  session' = [session EXCEPT ![s] =
                IF cancelError(hit, u) # "" THEN Done(f, cancelError(hit, u))
                ELSE [f EXCEPT !.pc = "tx", !.id = CHOOSE i \in hit : \A j \in hit : i <= j]]
    /\ UNCHANGED <<leaveRequest, approval, binding>>
    /\ UnchangedData

\* mutant: the cascade also reaches linked rows that are no longer PENDING
cancelCascadeAnyStatus(id, u) ==
    {i \in LeaveIds : /\ leaveRequest[i].linkedToId = id
                      /\ leaveRequest[i].createdByUserId = u}

\* mutant: the cascade does not look at who created the linked row
cancelCascadeAnyCreator(id, u) ==
    {i \in LeaveIds : /\ leaveRequest[i].linkedToId = id
                      /\ leaveRequest[i].status = "PENDING"}

\* the rows updateMany of the cancel transaction matches
cancelCascade(id, u) ==
    {i \in LeaveIds : /\ leaveRequest[i].linkedToId = id
                      /\ leaveRequest[i].status = "PENDING"
                      /\ leaveRequest[i].createdByUserId = u}

\* the transaction: update of the row, updateMany of its mirrors
DeleteTx(s) ==
    /\ session[s].op = "DELETE" /\ session[s].pc = "tx"
    /\ LET f == session[s]
           hit == {f.id} \cup cancelCascade(f.id, f.user)
       IN  /\ leaveRequest' = [i \in LeaveIds |->
                    IF i \in hit THEN [leaveRequest[i] EXCEPT !.status = "CANCELED"]
                    ELSE leaveRequest[i]]
           /\ session' = [session EXCEPT ![s] = Done(f, "OK")]
    /\ UNCHANGED <<approval, binding>>
    /\ UnchangedData

----------------------------------------------------------------------------
(* Manager: approve / reject / force-approve a request *)

\* the ids a decision is posted for: those of the rows, and one of no row
DecideIds ==
    LET unused == IdSpace \ LeaveIds
    IN  LeaveIds \cup (IF unused = {} THEN {} ELSE {CHOOSE i \in unused : \A j \in unused : i <= j})

nextStatusOf(action) == IF action = "REJECT" THEN "REJECTED" ELSE "APPROVED"

\* findFirst of the row and the PENDING check, before the transaction
DecideBegin(s, id, action) ==
    /\ session[s].pc = "idle"
    /\ id \in DecideIds /\ action \in ApprovalActions
    /\ Len(approval) + PendingApprovals < MaxApprovals
    /\ LET f == [Idle EXCEPT !.op = "DECIDE", !.id = id, !.act = action]
       IN  session' = [session EXCEPT ![s] =
                IF id \notin LeaveIds THEN Done(f, "NOT_FOUND")
                ELSE IF leaveRequest[id].status # "PENDING" THEN Done(f, "NOT_PENDING")
                ELSE [f EXCEPT !.pc = "tx"]]
    /\ UNCHANGED <<leaveRequest, approval, binding>>
    /\ UnchangedData

\* POST /api/leave/[id]/approval
ApprovalRoutePOST(s, id, action) == DecideBegin(s, id, action)

\* admin page server action setLeaveStatus (approveLeave, rejectLeave, forceApproveLeave)
setLeaveStatus(s, id, action) == DecideBegin(s, id, action)

\* mutant: the cascade reaches linked rows of any status
decideCascadeAnyStatus(id) == linkedFrom(id)

\* the rows updateMany of the decision transaction matches
decideCascade(id) == {i \in linkedFrom(id) : leaveRequest[i].status = "PENDING"}

\* mutant: the decision is not recorded
approvalCreateSkipped(tbl, id, action) == tbl

\* tx.approval.create({ data: { leaveRequestId, action, ... } })
approvalCreate(tbl, id, action) == Append(tbl, [leaveRequestId |-> id, action |-> action])

\* the transaction: update of the row, Approval insert, updateMany of the mirrors
DecideTx(s) ==
    /\ session[s].op = "DECIDE" /\ session[s].pc = "tx"
    /\ LET f == session[s]
           nextStatus == nextStatusOf(f.act)
           hit == {f.id} \cup decideCascade(f.id)
       IN  /\ leaveRequest' = [i \in LeaveIds |->
                    IF i \in hit THEN [leaveRequest[i] EXCEPT !.status = nextStatus]
                    ELSE leaveRequest[i]]
           /\ approval' = approvalCreate(approval, f.id, f.act)
           /\ session' = [session EXCEPT ![s] = Done(f, "OK")]
    /\ UNCHANGED binding
    /\ UnchangedData

----------------------------------------------------------------------------
(* Manager: force-leave (admin page server action createManagerLeave) *)

\* transaction, first statement: findFirst of the target's row of the date
ManagerLeaveBegin(s, u, d) ==
    /\ session[s].pc = "idle"
    /\ u \in ActiveUsers /\ u \in Requesters /\ d \in ReqDates
    /\ Len(approval) + PendingApprovals < MaxApprovals
    /\ session' = [session EXCEPT ![s] =
            [Idle EXCEPT !.op = "FORCE", !.pc = "tx", !.user = u, !.date = d,
                         !.id = findLeave(u, d)]]
    /\ UNCHANGED <<leaveRequest, approval, binding>>
    /\ UnchangedData

\* mutant: a push that fails undoes what the transaction wrote
afterPushUndoing(committed, before, push) ==
    IF push = "PUSH_FAILED" THEN before ELSE committed

\* a table once the fetch of the LINE push has returned or thrown: the
\* transaction was committed before the fetch
afterPush(committed, before, push) == committed

\* mutant: the existing row keeps the source and the creator it had
forceApproveStatusOnly(tbl, id) ==
    [tbl EXCEPT ![id].status = "APPROVED"]

\* tx.leaveRequest.update of the existing row: status, source, creator
forceApprove(tbl, id) ==
    [tbl EXCEPT ![id].status = "APPROVED", ![id].source = "MANAGER", ![id].createdByUserId = "m"]

\* transaction, rest: update or create of the row, Approval insert; then the
\* LINE push, whose outcome does not reach the database
ManagerLeaveTx(s) ==
    /\ session[s].op = "FORCE" /\ session[s].pc = "tx"
    /\ LET f == session[s]
       IN  IF f.id # NoId
           THEN \E push \in {"OK", "PUSH_FAILED"} :
                /\ leaveRequest' = afterPush(forceApprove(leaveRequest, f.id), leaveRequest, push)
                /\ approval' = afterPush(approvalCreate(approval, f.id, "FORCE_APPROVE"),
                                         approval, push)
                /\ session' = [session EXCEPT ![s] = Done(f, push)]
           ELSE IF UniqueOk(f.user, f.date)
           THEN \E push \in {"OK", "PUSH_FAILED"} :
                /\ freshId(f.user, f.date) # NoId
                /\ leaveRequest' = afterPush(createLeave(leaveRequest, freshId(f.user, f.date),
                                                 NewLeave(f.user, f.date, "APPROVED", "MANAGER", "m", NoId)),
                                             leaveRequest, push)
                /\ approval' = afterPush(approvalCreate(approval, freshId(f.user, f.date),
                                                        "FORCE_APPROVE"),
                                         approval, push)
                /\ session' = [session EXCEPT ![s] = Done(f, push)]
           ELSE \* unique constraint violation: the transaction rolls back
                /\ UNCHANGED <<leaveRequest, approval>>
                /\ session' = [session EXCEPT ![s] = Done(f, "ERROR")]
    /\ UNCHANGED binding
    /\ UnchangedData

----------------------------------------------------------------------------
(* Manager: bindings *)

\* POST /api/admin/bindings
BindingRoutePOST(a, d) ==
    /\ a \in ActiveUsers /\ users[a].role = "ASSISTANT"
    /\ d \in ActiveUsers /\ users[d].role = "DESIGNER"
    /\ binding' = binding \cup {[assistantId |-> a, designerId |-> d]}
    /\ UNCHANGED <<leaveRequest, approval, session>>
    /\ UnchangedData

\* admin page server action createBinding
createBinding(a, d) ==
    /\ a \in ActiveUsers /\ users[a].role \in {"ASSISTANT", "ROOKIE"}
    /\ d \in ActiveUsers /\ users[d].role = "DESIGNER"
    /\ binding' = binding \cup {[assistantId |-> a, designerId |-> d]}
    /\ UNCHANGED <<leaveRequest, approval, session>>
    /\ UnchangedData

\* admin page server action deleteBinding: updateMany sets active = false
deleteBinding(b) ==
    /\ b \in binding
    /\ binding' = binding \ {b}
    /\ bindingInactive' = bindingInactive \cup {b}
    /\ UNCHANGED <<leaveRequest, approval, session, store, config, users, demandOverride,
                   rookieBooking, todayDay, result>>

----------------------------------------------------------------------------
\* the response is sent and the request ends
Respond(s) ==
    /\ session[s].pc = "done"
    /\ session' = [session EXCEPT ![s] = Idle]
    /\ UNCHANGED <<leaveRequest, approval, binding>>
    /\ UnchangedData

Next ==
    \/ \E s \in Sessions, u \in UserIds, d \in ReqDates : PostBegin(s, u, d)
    \/ \E s \in Sessions : PostAvailability(s)
    \/ \E s \in Sessions : PostWrite(s)
    \/ \E s \in Sessions : PostBindings(s)
    \/ \E s \in Sessions : PostMirrorFind(s)
    \/ \E s \in Sessions : PostMirrorWrite(s)
    \/ \E s \in Sessions, u \in UserIds, d \in ReqDates : DeleteBegin(s, u, d)
    \/ \E s \in Sessions : DeleteTx(s)
    \/ \E s \in Sessions, id \in IdSpace, a \in ApprovalActions : ApprovalRoutePOST(s, id, a)
    \/ \E s \in Sessions, id \in IdSpace, a \in ApprovalActions : setLeaveStatus(s, id, a)
    \/ \E s \in Sessions : DecideTx(s)
    \/ \E s \in Sessions, u \in UserIds, d \in ReqDates : ManagerLeaveBegin(s, u, d)
    \/ \E s \in Sessions : ManagerLeaveTx(s)
    \/ \E s \in Sessions : Respond(s)

Spec == Init /\ [][Next]_vars

----------------------------------------------------------------------------
(* The manager's binding operations on their own: the bindings route and *)
(* the two admin page actions, from the seeded tables                    *)

BindingNext ==
    \/ \E a \in UserIds, d \in UserIds : BindingRoutePOST(a, d)
    \/ \E a \in UserIds, d \in UserIds : createBinding(a, d)
    \/ \E b \in binding : deleteBinding(b)

SpecBinding == Init /\ [][BindingNext]_vars

\* C25: in every state every active binding has a user of role ASSISTANT as
\* assistantId and a user of role DESIGNER as designerId, whichever of the
\* bindings route and the admin page action created it.
C25_BindingPairsAssistantDesigner ==
    \A b \in binding :
        /\ users[b.assistantId].role = "ASSISTANT"
        /\ users[b.designerId].role = "DESIGNER"

----------------------------------------------------------------------------
(* Properties of the leave operations (checked under Spec) *)

ActiveRows(u, d) ==
    {i \in DOMAIN leaveRequest : /\ leaveRequest[i].userId = u /\ leaveRequest[i].date = d
                                 /\ leaveRequest[i].status \in {"PENDING", "APPROVED"}}

\* C1: every (userId, date) has at most one PENDING or APPROVED request, in
\* every state reached by any interleaving of the operations.
C1_OneActivePerUserDate ==
    \A u \in UserIds, d \in Dates : Cardinality(ActiveRows(u, d)) <= 1

\* C1 witness: two self-requests for the same (user, date) raced, the second
\* insert was refused, and the user has one active request
C1_Witness ==
    \E s \in Sessions :
        /\ session[s].op = "POST" /\ session[s].pc = "done" /\ session[s].res = "ERROR"
        /\ Cardinality(ActiveRows(session[s].user, session[s].date)) = 1

\* session s commits its approve / reject transaction in this step
DecideCommits(s) ==
    session[s].op = "DECIDE" /\ session[s].pc = "tx" /\ session'[s].pc = "done"

\* C4: in the step that approves or rejects request P, every request linked
\* to P that is PENDING takes P's new status, and a linked request that is
\* not PENDING keeps its status.
C4_DecisionCascades ==
    [][\A s \in Sessions : DecideCommits(s) =>
          LET P == session[s].id
              new == IF session[s].act = "REJECT" THEN "REJECTED" ELSE "APPROVED"
          IN  /\ leaveRequest'[P].status = new
              /\ \A i \in DOMAIN leaveRequest :
                    (i # P /\ leaveRequest[i].linkedToId = P) =>
                        leaveRequest'[i].status =
                            IF leaveRequest[i].status = "PENDING" THEN new
                            ELSE leaveRequest[i].status]_vars

\* C4 witness: a rejection was committed and reached the PENDING mirror
C4_Witness ==
    /\ \E s \in Sessions : session[s].op = "DECIDE" /\ session[s].pc = "done"
                           /\ session[s].res = "OK"
    /\ \E i, j \in DOMAIN leaveRequest :
          /\ leaveRequest[j].linkedToId = i /\ leaveRequest[j].source = "BINDING_MIRROR"
          /\ leaveRequest[i].status = "REJECTED" /\ leaveRequest[j].status = "REJECTED"
          /\ approval = <<[leaveRequestId |-> i, action |-> "REJECT"]>>

\* session s commits its cancel transaction in this step
CancelCommits(s) ==
    session[s].op = "DELETE" /\ session[s].pc = "tx" /\ session'[s].pc = "done"

\* C5: the step that cancels request P of user U sets to CANCELED P and the
\* requests that are linked to P, PENDING and created by U, and leaves every
\* other request as it was.
C5_CancelFrame ==
    [][\A s \in Sessions : CancelCommits(s) =>
          LET P == session[s].id
              U == session[s].user
          IN  /\ DOMAIN leaveRequest' = DOMAIN leaveRequest
              /\ \A i \in DOMAIN leaveRequest :
                    IF i = P \/ ( /\ leaveRequest[i].linkedToId = P
                                  /\ leaveRequest[i].status = "PENDING"
                                  /\ leaveRequest[i].createdByUserId = U )
                    THEN leaveRequest'[i] = [leaveRequest[i] EXCEPT !.status = "CANCELED"]
                    ELSE leaveRequest'[i] = leaveRequest[i]]_vars

\* C5 witness: the designer cancelled; the request the assistant created for
\* the same date (still linked to the designer's) stays PENDING
C5_Witness ==
    \E s \in Sessions, i, j \in DOMAIN leaveRequest :
        /\ session[s].op = "DELETE" /\ session[s].pc = "done" /\ session[s].res = "OK"
        /\ leaveRequest[i].userId = session[s].user /\ leaveRequest[i].status = "CANCELED"
        /\ leaveRequest[j].linkedToId = i /\ leaveRequest[j].date = leaveRequest[i].date
        /\ leaveRequest[j].createdByUserId = leaveRequest[j].userId
        /\ leaveRequest[j].source = "SELF" /\ leaveRequest[j].status = "PENDING"

\* session s receives a self-request of user u for date d in this step
PostArrives(s, u, d) ==
    /\ session[s].pc = "idle" /\ session'[s].op = "POST"
    /\ session'[s].user = u /\ session'[s].date = d

\* C7: a self-request made while the user has a PENDING or APPROVED request
\* on the date is answered ALREADY_REQUESTED and changes no leave request.
C7_AlreadyRequested ==
    [][\A s \in Sessions, u \in UserIds, d \in Dates :
          (PostArrives(s, u, d) /\ ActiveRows(u, d) # {}) =>
              /\ session'[s].pc = "done" /\ session'[s].res = "ALREADY_REQUESTED"
              /\ leaveRequest' = leaveRequest]_vars

\* C7 witness: a request for a date with an APPROVED request was turned down
C7_Witness ==
    \E s \in Sessions :
        /\ session[s].op = "POST" /\ session[s].pc = "done"
        /\ session[s].res = "ALREADY_REQUESTED"
        /\ \E i \in ActiveRows(session[s].user, session[s].date) :
              leaveRequest[i].status = "APPROVED"

\* the status of row i differs after the step
StatusChanges(i) == leaveRequest'[i].status # leaveRequest[i].status

\* C6 as stated: a record that is APPROVED, REJECTED or CANCELED never changes
\* status again; the only transitions are PENDING to APPROVED, REJECTED, CANCELED.
C6_TerminalStatuses ==
    [][\A i \in DOMAIN leaveRequest : StatusChanges(i) =>
          /\ leaveRequest[i].status = "PENDING"
          /\ leaveRequest'[i].status \in {"APPROVED", "REJECTED", "CANCELED"}]_vars

\* session s writes row i itself in this step (the row its update names by id)
WritesRow(s, i) ==
    \/ /\ session[s].op \in {"POST", "DELETE", "DECIDE", "FORCE"}
       /\ session[s].pc \in {"write", "tx"} /\ session[s].id = i
    \/ /\ session[s].op = "POST" /\ session[s].pc = "mirrorWrite" /\ session[s].curId = i

\* the status the operation of session s writes to the row it names
WrittenStatus(s) ==
    CASE session[s].op = "POST" -> "PENDING"
      [] session[s].op = "DELETE" -> "CANCELED"
      [] session[s].op = "FORCE" -> "APPROVED"
      [] OTHER -> IF session[s].act = "REJECT" THEN "REJECTED" ELSE "APPROVED"

\* C6 amended: a status change is PENDING to APPROVED, REJECTED or CANCELED,
\* unless the row is the one the committing operation itself writes: then the
\* row takes the operation's status (PENDING for a self-request or mirror
\* creation, APPROVED for force-leave or approval, REJECTED, CANCELED)
\* whatever its status was; no cascade changes a row that is not PENDING.
C6_StatusTransitions ==
    [][\A i \in DOMAIN leaveRequest : StatusChanges(i) =>
          \/ /\ leaveRequest[i].status = "PENDING"
             /\ leaveRequest'[i].status \in {"APPROVED", "REJECTED", "CANCELED"}
          \/ \E s \in Sessions :
                /\ WritesRow(s, i) /\ session'[s].pc # session[s].pc
                /\ leaveRequest'[i].status = WrittenStatus(s)]_vars

\* C6 witness: a request that was rejected is PENDING again, and a request
\* that was approved by force-leave is too
C6_Witness ==
    \E i, j \in DOMAIN leaveRequest :
        /\ i # j
        /\ leaveRequest[i].status = "PENDING" /\ leaveRequest[j].status = "PENDING"
        /\ approval = <<[leaveRequestId |-> i, action |-> "REJECT"],
                        [leaveRequestId |-> j, action |-> "FORCE_APPROVE"]>>

\* the designer's request of session s
Mirroring(s) ==
    /\ session[s].op = "POST" /\ users[session[s].user].role = "DESIGNER"
    /\ getStringConfig("binding_mirror_leave", "auto_create") = "auto_create"

MirrorOf(i, by, parent) ==
    /\ leaveRequest'[i].status = "PENDING" /\ leaveRequest'[i].source = "BINDING_MIRROR"
    /\ leaveRequest'[i].createdByUserId = by /\ leaveRequest'[i].linkedToId = parent

\* C8 as stated: when the designer's accepted request completes, every
\* assistant bound to the designer has a PENDING BINDING_MIRROR request on the
\* date linked to the designer's request.
C8_EveryBoundAssistantMirrored ==
    [][\A s \in Sessions :
          ( /\ Mirroring(s) /\ session[s].pc # "done"
            /\ session'[s].pc = "done" /\ session'[s].res = "OK" ) =>
          \A b \in binding : b.designerId = session[s].user =>
             \E i \in DOMAIN leaveRequest' :
                /\ leaveRequest'[i].userId = b.assistantId
                /\ leaveRequest'[i].date = session[s].date
                /\ leaveRequest'[i].status = "PENDING"
                /\ leaveRequest'[i].source = "BINDING_MIRROR"
                /\ \E p \in DOMAIN leaveRequest' :
                      /\ leaveRequest'[p].userId = session[s].user
                      /\ leaveRequest'[p].date = session[s].date
                      /\ leaveRequest'[i].linkedToId = p]_vars

\* C8 amended: for each binding the accepted request takes up, an assistant
\* who has a PENDING or APPROVED request on the date when it is read keeps it
\* unchanged and gets no mirror; otherwise the assistant's request on the date
\* is written (created, or its old record re-used) PENDING, BINDING_MIRROR,
\* created by the designer and linked to the designer's request, all other
\* requests unchanged, or the insert is refused by the unique index and the
\* request ends in an error with nothing written.
C8_MirrorPerBinding ==
    [][\A s \in Sessions : (Mirroring(s) /\ session'[s] # session[s]) =>
          LET f == session[s]
              g == session'[s]
          IN  /\ (f.pc = "mirror" /\ g.pc # "mirrorWrite") =>
                    /\ leaveRequest' = leaveRequest
                    /\ \E a \in f.todo \ g.todo : ActiveRows(a, f.date) # {}
              /\ (f.pc = "mirror" /\ g.pc = "mirrorWrite") =>
                    /\ leaveRequest' = leaveRequest
                    /\ g.cur \in f.todo /\ ActiveRows(g.cur, f.date) = {}
                    /\ [assistantId |-> g.cur, designerId |-> f.user] \in binding
              /\ (f.pc = "mirrorWrite" /\ g.res # "ERROR") =>
                    /\ f.parent \in DOMAIN leaveRequest
                    /\ leaveRequest[f.parent].userId = f.user
                    /\ leaveRequest[f.parent].date = f.date
                    /\ \E i \in DOMAIN leaveRequest' :
                          /\ leaveRequest'[i].userId = f.cur
                          /\ leaveRequest'[i].date = f.date
                          /\ MirrorOf(i, f.user, f.parent)
                          /\ \A j \in DOMAIN leaveRequest :
                                j # i => leaveRequest'[j] = leaveRequest[j]
              /\ (f.pc = "mirrorWrite" /\ g.res = "ERROR") =>
                    /\ leaveRequest' = leaveRequest
                    /\ \E j \in DOMAIN leaveRequest :
                          leaveRequest[j].userId = f.cur /\ leaveRequest[j].date = f.date]_vars

\* C8 witness: the designer's request completed with the mirror written on the
\* assistant's record, which a manager had decided on before (a re-used record)
C8_Witness ==
    \E s \in Sessions, p, i \in DOMAIN leaveRequest :
        /\ session[s].op = "POST" /\ session[s].pc = "done" /\ session[s].res = "OK"
        /\ users[session[s].user].role = "DESIGNER"
        /\ leaveRequest[p].userId = session[s].user /\ leaveRequest[p].status = "PENDING"
        /\ [assistantId |-> leaveRequest[i].userId, designerId |-> session[s].user] \in binding
        /\ leaveRequest[i].status = "PENDING" /\ leaveRequest[i].source = "BINDING_MIRROR"
        /\ leaveRequest[i].linkedToId = p
        /\ \E k \in 1..Len(approval) : approval[k].leaveRequestId = i

\* some session commits a force-leave transaction in this step
ForceCommits ==
    \E s \in Sessions : session[s].op = "FORCE" /\ session[s].pc = "tx"
                        /\ session'[s].pc = "done"

\* the step applies the three effects of the decision of session s
DecisionApplied(s) ==
    LET P == session[s].id
        new == IF session[s].act = "REJECT" THEN "REJECTED" ELSE "APPROVED"
    IN  /\ leaveRequest'[P].status = new
        /\ \A i \in DOMAIN leaveRequest :
              (leaveRequest[i].linkedToId = P /\ leaveRequest[i].status = "PENDING") =>
                  leaveRequest'[i].status = new
        /\ approval' = Append(approval, [leaveRequestId |-> P, action |-> session[s].act])

C17_DesignerCreateAtomic ==
    [][\A s \in Sessions : Mirroring(s) =>
          /\ (session[s].pc = "write" /\ leaveRequest' # leaveRequest) =>
                \A b \in binding : b.designerId = session[s].user =>
                    \E i \in DOMAIN leaveRequest' :
                        /\ leaveRequest'[i].userId = b.assistantId
                        /\ leaveRequest'[i].date = session[s].date
                        /\ leaveRequest'[i].status \in {"PENDING", "APPROVED"}
          /\ (session[s].pc = "mirrorWrite" /\ session'[s].res = "ERROR") =>
                leaveRequest'[session[s].parent].status # "PENDING"]_vars

\* session s passed the existing-request check when (u, d) had no record, and
\* another self-request of u has inserted the record since
LostInsertRace(s, u, d) ==
    /\ session[s].op = "POST" /\ session[s].pc = "write" /\ session[s].id = NoId
    /\ session[s].user = u /\ session[s].date = d
    /\ \E i \in DOMAIN leaveRequest :
          /\ leaveRequest[i].userId = u /\ leaveRequest[i].date = d
          /\ leaveRequest[i].source = "SELF" /\ leaveRequest[i].createdByUserId = u

\* C18: when two self-requests for the same (user, date) both pass the
\* existing-request check, one record for (user, date) results and the request
\* that loses ends with the conflict outcome (ALREADY_REQUESTED, status 409),
\* not with a success and not with an unclassified failure.
C18_LoserGetsConflict ==
    [][\A s \in Sessions, u \in UserIds, d \in Dates :
          (LostInsertRace(s, u, d) /\ session'[s] # session[s]) =>
              /\ Cardinality({i \in DOMAIN leaveRequest' :
                                leaveRequest'[i].userId = u /\ leaveRequest'[i].date = d}) = 1
              /\ session'[s].pc = "done" /\ session'[s].res = "ALREADY_REQUESTED"]_vars

\* C20: when a force-leave has committed, the APPROVED leave record of the
\* target and the FORCE_APPROVE Approval record are in the tables whether the
\* notification that follows succeeds or fails.
C20_PushFailureKeepsLeave ==
    [][\A s \in Sessions :
          ( /\ session[s].op = "FORCE" /\ session[s].pc = "tx"
            /\ session'[s].pc = "done" /\ session'[s].res \in {"OK", "PUSH_FAILED"} ) =>
          \E i \in DOMAIN leaveRequest' :
             /\ leaveRequest'[i].userId = session[s].user
             /\ leaveRequest'[i].date = session[s].date
             /\ leaveRequest'[i].status = "APPROVED" /\ leaveRequest'[i].source = "MANAGER"
             /\ approval' = Append(approval, [leaveRequestId |-> i, action |-> "FORCE_APPROVE"])]_vars

\* C20 witness: the force-leave ended with a failed push; the APPROVED record
\* and its FORCE_APPROVE Approval record are in the tables
C20_Witness ==
    \E s \in Sessions, i \in DOMAIN leaveRequest :
        /\ session[s].op = "FORCE" /\ session[s].pc = "done" /\ session[s].res = "PUSH_FAILED"
        /\ leaveRequest[i].userId = session[s].user /\ leaveRequest[i].date = session[s].date
        /\ leaveRequest[i].status = "APPROVED" /\ leaveRequest[i].source = "MANAGER"
        /\ approval = <<[leaveRequestId |-> i, action |-> "FORCE_APPROVE"]>>

\* C21: in every state a PENDING request of source BINDING_MIRROR that is
\* linked to a parent request has a parent that is PENDING.
C21_PendingMirrorHasPendingParent ==
    \A i \in DOMAIN leaveRequest :
        ( /\ leaveRequest[i].status = "PENDING" /\ leaveRequest[i].source = "BINDING_MIRROR"
          /\ leaveRequest[i].linkedToId # NoId ) =>
            /\ leaveRequest[i].linkedToId \in DOMAIN leaveRequest
            /\ leaveRequest[leaveRequest[i].linkedToId].status = "PENDING"

\* the user's PENDING or APPROVED rows of the date, as DELETE looks them up
ActiveOf(u, d) ==
    {i \in DOMAIN leaveRequest : /\ leaveRequest[i].userId = u /\ leaveRequest[i].date = d
                                  /\ leaveRequest[i].status \in {"PENDING", "APPROVED"}}

\* C22: a self-cancel of user U for date D goes on to its write only when U
\* has a request on D that is PENDING and was created by U; with no active
\* request it returns NOT_FOUND, with one somebody else created FORBIDDEN, with
\* an APPROVED one NOT_CANCELABLE, and in these cases no leave request changes.
C22_CancelErrorsChangeNothing ==
    [][\A s \in Sessions :
        (session[s].pc = "idle" /\ session'[s].op = "DELETE") =>
            LET u == session'[s].user
                act == ActiveOf(u, session'[s].date)
                own == {i \in act : leaveRequest[i].createdByUserId = u}
            IN  /\ leaveRequest' = leaveRequest
                /\ (session'[s].pc = "tx") <=>
                        (\E i \in own : leaveRequest[i].status = "PENDING")
                /\ (session'[s].pc = "tx") => session'[s].id \in own
                /\ (act = {}) => session'[s].res = "NOT_FOUND"
                /\ (act # {} /\ own = {}) => session'[s].res = "FORBIDDEN"
                /\ (own # {} /\ \A i \in own : leaveRequest[i].status = "APPROVED") =>
                        session'[s].res = "NOT_CANCELABLE"]_vars

\* witness of C22: an assistant's DELETE was refused with FORBIDDEN because the
\* PENDING request of the date is a mirror the designer created
C22_Witness ==
    \E s \in Sessions, i \in DOMAIN leaveRequest :
        /\ session[s].op = "DELETE" /\ session[s].res = "FORBIDDEN"
        /\ leaveRequest[i].userId = session[s].user /\ leaveRequest[i].date = session[s].date
        /\ leaveRequest[i].status = "PENDING" /\ leaveRequest[i].source = "BINDING_MIRROR"
        /\ leaveRequest[i].createdByUserId # session[s].user

\* C23: a POST of a user whose request of the date is CANCELED or REJECTED
\* is not refused as already requested; if the date is selectable for the user
\* the POST succeeds (it goes on to its write and never throws), and its write
\* leaves exactly one active request of (user, date): PENDING, of source SELF,
\* created by the user.
C23_ReRequestSucceeds ==
    [][\A s \in Sessions :
        LET f == session[s]
            g == session'[s]
        IN  /\ ( /\ f.pc = "idle" /\ g.op = "POST"
                 /\ findLeave(g.user, g.date) # NoId
                 /\ leaveRequest[findLeave(g.user, g.date)].status \in {"CANCELED", "REJECTED"} ) =>
                    g.pc = "avail" /\ g.id = findLeave(g.user, g.date)
            /\ ( f.op = "POST" /\ f.pc = "avail" /\ f.id # NoId /\ g # f ) =>
                    LET day == getMonthAvailability(
                                   [userId |-> f.user, role |-> users[f.user].role]).days[f.date]
                    IN  IF day.selectable THEN g.pc = "write" ELSE g.res = "NOT_ALLOWED"
            /\ ( f.op = "POST" /\ f.pc = "write" /\ f.id # NoId /\ g # f ) =>
                    /\ {i \in DOMAIN leaveRequest' :
                            /\ leaveRequest'[i].userId = f.user /\ leaveRequest'[i].date = f.date
                            /\ leaveRequest'[i].status \in {"PENDING", "APPROVED"}} = {f.id}
                    /\ leaveRequest'[f.id].status = "PENDING"
                    /\ leaveRequest'[f.id].source = "SELF"
                    /\ leaveRequest'[f.id].createdByUserId = f.user
            /\ ( f.op = "POST" /\ f.id # NoId /\ f.pc \notin {"avail", "done"} /\ g.pc = "done" ) =>
                    g.res = "OK"]_vars

\* C26: in every state a request with a linkedToId has source BINDING_MIRROR
\* and was created by the owner of the linked parent.
C26_LinkedIsMirrorOfParentOwner ==
    \A i \in DOMAIN leaveRequest :
        leaveRequest[i].linkedToId # NoId =>
            /\ leaveRequest[i].source = "BINDING_MIRROR"
            /\ leaveRequest[i].linkedToId \in DOMAIN leaveRequest
            /\ leaveRequest[i].createdByUserId = leaveRequest[leaveRequest[i].linkedToId].userId

\* C27: under every interleaving of approve, reject and self-cancel the
\* status write of a decision or of a cancel is applied to a record that is
\* PENDING at the moment of the write.
C27_WritesOnlyToPending ==
    [][\A s \in Sessions :
        ( /\ session[s].op \in {"DECIDE", "DELETE"} /\ session[s].pc = "tx"
          /\ session'[s].pc = "done" ) =>
            leaveRequest[session[s].id].status = "PENDING"]_vars

\* C28: a POST that is refused with NOT_ALLOWED changes no table, and a POST
\* writes the user's own PENDING request only when the date is selectable for
\* the user in the tables as they are at the moment of the write.
C28_SelectableAtWrite ==
    [][\A s \in Sessions :
        LET f == session[s]
            g == session'[s]
        IN  /\ ( f.op = "POST" /\ g.res = "NOT_ALLOWED" /\ g # f ) =>
                    /\ leaveRequest' = leaveRequest /\ approval' = approval
                    /\ ~getMonthAvailability(
                            [userId |-> f.user, role |-> users[f.user].role]).days[f.date].selectable
            /\ ( f.op = "POST" /\ f.pc = "write" /\ g # f /\ leaveRequest' # leaveRequest ) =>
                    getMonthAvailability(
                        [userId |-> f.user, role |-> users[f.user].role]).days[f.date].selectable]_vars

\* C30: a force-leave for (user, date) that commits leaves, whatever the
\* record was before and whatever a self-request of the same user and date
\* did in between, exactly one leave record of (user, date), APPROVED and of
\* source MANAGER, and adds exactly one Approval record, FORCE_APPROVE for
\* that record, in the same step.
C30_ForceLeaveOutcome ==
    [][\A s \in Sessions :
          ( /\ session[s].op = "FORCE" /\ session[s].pc = "tx"
            /\ session'[s].pc = "done" /\ session'[s].res # "ERROR" ) =>
          LET rows == {i \in DOMAIN leaveRequest' :
                          /\ leaveRequest'[i].userId = session[s].user
                          /\ leaveRequest'[i].date = session[s].date}
          IN  /\ Cardinality(rows) = 1
              /\ \A i \in rows :
                    /\ leaveRequest'[i].status = "APPROVED"
                    /\ leaveRequest'[i].source = "MANAGER"
                    /\ Len(approval') = Len(approval) + 1
                    /\ approval'[Len(approval')] =
                          [leaveRequestId |-> i, action |-> "FORCE_APPROVE"]
                    /\ \A k \in 1..Len(approval) : approval'[k] = approval[k]]_vars

\* C30 witness: a self-request and a force-leave of the same user and date
\* have both returned OK, the force-leave last: the record is APPROVED, of
\* source MANAGER, and the newest Approval record is its FORCE_APPROVE
C30_Witness ==
    \E s \in Sessions, t \in Sessions, i \in DOMAIN leaveRequest :
        /\ session[s].op = "FORCE" /\ session[s].pc = "done" /\ session[s].res = "OK"
        /\ session[t].op = "POST" /\ session[t].pc = "done" /\ session[t].res = "OK"
        /\ session[t].user = session[s].user /\ session[t].date = session[s].date
        /\ leaveRequest[i].userId = session[s].user /\ leaveRequest[i].date = session[s].date
        /\ leaveRequest[i].status = "APPROVED" /\ leaveRequest[i].source = "MANAGER"
        /\ approval[Len(approval)] = [leaveRequestId |-> i, action |-> "FORCE_APPROVE"]

----------------------------------------------------------------------------
(* The availability engine on its own: the tables are drawn from bounded    *)
(* sets, and a call of getMonthAvailability stores what it returns.         *)

\* values of "now" (day of month): inside phase 1, inside phase 2, later
TodaySamples == {3, 7, 15}

\* the config rows an administrator may have saved instead of the seed's
ConfigEdits ==
    { <<"safety_factor", CfgNum(10)>>, <<"safety_factor", CfgStr("x")>>,
      <<"assistant_supply", CfgNum(5)>>, <<"rookie_support_supply", CfgNum(5)>>,
      <<"rookie_guest_supply", CfgNum(2)>>, <<"designer_default_demand", CfgNum(10)>>,
      <<"closed_dates", CfgList({3}, {})>>, <<"closed_weekdays", CfgList({}, {"SAT"})>>,
      <<"phase1_end_day", CfgNum(2)>>, <<"phase2_end_day", CfgNum(10)>>,
      <<"assistant_block_saturday", CfgBool(FALSE)>>,
      <<"assistant_block_if_master_working", CfgBool(FALSE)>>,
      <<"rookie_any_booking_supply_zero", CfgBool(FALSE)>> }

\* users without per-user supply, and a designer with a per-user demand
PlainUsers ==
    [SeedUsers EXCEPT !["a1"].baseSupply = Null, !["r1"].baseSupply = Null,
                      !["d1"].baseDemand = Num(10)]

\* the seed, or the seed with one setting changed
AvailScenarios ==
    {[store |-> [timezone |-> 8], config |-> SeedConfig, binding |-> SeedBinding]}
    \cup {[store |-> [timezone |-> 8], config |-> [SeedConfig EXCEPT ![e[1]] = e[2]],
           binding |-> SeedBinding] : e \in ConfigEdits}
    \cup {[store |-> [timezone |-> 13], config |-> c, binding |-> SeedBinding] :
            c \in {SeedConfig,
                   [SeedConfig EXCEPT !["closed_weekdays"] = CfgList({}, {"SAT"})]}}
    \cup {[store |-> [timezone |-> 8], config |-> SeedConfig, binding |-> b] :
            b \in {{}, SeedBinding \cup {[assistantId |-> "a1", designerId |-> "d2"]}}}

NoRows == [i \in {} |-> 0]

\* the LeaveRequest tables drawn: per (user, date) no row or one of a few rows
AvailLeaveTables ==
    LET d1 == {NoRows, 1 :> NewLeave("d1", 3, "PENDING", "SELF", "d1", NoId),
                       1 :> NewLeave("d1", 3, "CANCELED", "SELF", "d1", NoId)}
        a1 == {NoRows, 3 :> NewLeave("a1", 3, "PENDING", "BINDING_MIRROR", "d1", 1),
                       3 :> NewLeave("a1", 3, "APPROVED", "MANAGER", "m", NoId)}
        d2 == {NoRows, 5 :> NewLeave("d2", 3, "APPROVED", "MANAGER", "m", NoId)}
        r1 == {NoRows, 7 :> NewLeave("r1", 3, "PENDING", "SELF", "r1", NoId)}
        all == {t1 @@ t2 @@ t3 @@ t4 : t1 \in d1, t2 \in a1, t3 \in d2, t4 \in r1}
    IN  \* LeaveRequest_linkedToId_fkey: a linked row exists
        {t \in all : \A i \in DOMAIN t : t[i].linkedToId = NoId \/ t[i].linkedToId \in DOMAIN t}

AvailInit ==
    /\ \E sc \in AvailScenarios :
          store = sc.store /\ config = sc.config /\ binding = sc.binding
    /\ users \in {SeedUsers, PlainUsers}
    /\ todayDay \in TodaySamples
    /\ leaveRequest \in AvailLeaveTables
    /\ rookieBooking \in {{}, {<<"r1", 3>>}}
    /\ demandOverride \in {{}, {[designerId |-> "d1", date |-> 3, demand |-> 0]}}
    /\ approval = <<>>
    /\ bindingInactive = {}
    /\ session = [s \in Sessions |-> Idle]
    /\ result = NoResult

\* mutant: the call saves the fallback of a setting that has no row
CallAvailabilitySavingFallback(u) ==
    /\ u \in ActiveUsers
    /\ result = NoResult
    /\ result' = getMonthAvailability([userId |-> u, role |-> users[u].role])
    /\ config' = IF config["phase2_end_day"] = NoRow
                 THEN [config EXCEPT !["phase2_end_day"] = CfgNum(31)]
                 ELSE config
    /\ UNCHANGED <<store, users, leaveRequest, approval, binding,
                   demandOverride, rookieBooking, todayDay, session, bindingInactive>>

\* GET /api/availability (and the leave page): a signed-in user asks for the month
CallAvailability(u) ==
    /\ u \in ActiveUsers
    /\ result = NoResult  \* a further call reads the same tables
    /\ result' = getMonthAvailability([userId |-> u, role |-> users[u].role])
    /\ UNCHANGED <<store, config, users, leaveRequest, approval, binding,
                   demandOverride, rookieBooking, todayDay, session, bindingInactive>>

AvailNext == \E u \in {"m", "d1", "a1", "r1"} : CallAvailability(u)

SpecAvail == AvailInit /\ [][AvailNext]_vars

----------------------------------------------------------------------------
(* Properties of the availability engine (checked under SpecAvail) *)

Has(seq, x) == \E k \in 1..Len(seq) : seq[k] = x

\* the days of the last call
ResultDays == IF result.called THEN DOMAIN result.days ELSE {}

\* C2: QUOTA_FULL is in a day's reasons exactly when its remainingQuota is
\* negative (not at 0); for a DESIGNER requester a day is never unselectable
\* on account of QUOTA_FULL alone; for an ASSISTANT or ROOKIE requester a day
\* with QUOTA_FULL is not selectable.
C2_QuotaFullBySign ==
    \A d \in ResultDays :
        LET day == result.days[d]
            role == result.requester.role
        IN  /\ Has(day.reasons, "QUOTA_FULL") <=> day.remainingQuota < 0
            /\ (role = "DESIGNER" /\ ~day.selectable)
                   => \E k \in 1..Len(day.reasons) : day.reasons[k] # "QUOTA_FULL"
            /\ (role \in {"ASSISTANT", "ROOKIE"} /\ Has(day.reasons, "QUOTA_FULL"))
                   => ~day.selectable

\* C2 witness: a designer asked, and a day whose only reason is QUOTA_FULL is selectable
C2_Witness ==
    /\ result.called /\ result.requester.role = "DESIGNER"
    /\ \E d \in ResultDays : /\ result.days[d].reasons = <<"QUOTA_FULL">>
                             /\ result.days[d].selectable
                             /\ result.days[d].remainingQuota < 0

InWindow(t, lo, hi) == t >= lo /\ t <= hi

\* C3: PHASE_LOCK depends on today's day-of-month and the role only: for a
\* DESIGNER it is present iff today is in neither phase window, for an
\* ASSISTANT or ROOKIE iff today is outside the phase 2 window; it makes the
\* day unselectable, and it is on every day of the month or on none.
C3_PhaseLockByToday ==
    LET p1 == InWindow(todayDay, getNumberConfig("phase1_start_day", 1),
                                 getNumberConfig("phase1_end_day", 5))
        p2 == InWindow(todayDay, getNumberConfig("phase2_start_day", 6),
                                 getNumberConfig("phase2_end_day", 31))
        role == result.requester.role
    IN  /\ \A d \in ResultDays :
              LET day == result.days[d]
              IN  /\ role = "DESIGNER" => (Has(day.reasons, "PHASE_LOCK") <=> (~p1 /\ ~p2))
                  /\ role \in {"ASSISTANT", "ROOKIE"} => (Has(day.reasons, "PHASE_LOCK") <=> ~p2)
                  /\ Has(day.reasons, "PHASE_LOCK") => ~day.selectable
        /\ \A d, e \in ResultDays :
              Has(result.days[d].reasons, "PHASE_LOCK") <=> Has(result.days[e].reasons, "PHASE_LOCK")

\* C3 witness: windows 1-5 / 6-.., today = 3, an assistant asked: every day is locked
C3_Witness ==
    /\ result.called /\ result.requester.role = "ASSISTANT" /\ todayDay = 3
    /\ getNumberConfig("phase1_end_day", 5) = 5 /\ getNumberConfig("phase2_start_day", 6) = 6
    /\ \A d \in ResultDays : Has(result.days[d].reasons, "PHASE_LOCK") /\ ~result.days[d].selectable

\* C9: in every day record, remainingQuota = assistantSupply + rookieSupply
\* - designerDemand * safetyFactor of that same record (in hundredths).
C9_RemainingQuotaFormula ==
    \A d \in ResultDays :
        LET day == result.days[d]
        IN  day.remainingQuota =
                10 * day.assistantSupply + 10 * day.rookieSupply
                - day.designerDemand * day.safetyFactor

\* C9 witness: a day with supply of both kinds, demand and a factor of 1.1
C9_Witness ==
    /\ result.called
    /\ \E d \in ResultDays : /\ result.days[d].assistantSupply > 0
                             /\ result.days[d].rookieSupply > 0
                             /\ result.days[d].designerDemand > 0
                             /\ result.days[d].safetyFactor = 11

\* user u has a PENDING or APPROVED leave request on date d
HasActiveLeave(u, d) ==
    \E i \in DOMAIN leaveRequest :
        /\ leaveRequest[i].userId = u /\ leaveRequest[i].date = d
        /\ leaveRequest[i].status \in {"PENDING", "APPROVED"}

\* the active users of a role without a PENDING or APPROVED request on d
NotOff(role, d) ==
    {u \in UserIds : users[u].active /\ users[u].role = role /\ ~HasActiveLeave(u, d)}

\* C10: each day's assistantSupply, rookieSupply and designerDemand are the
\* sums of the weights of exactly the active users of the role who have no
\* PENDING or APPROVED request on that date (a REJECTED or CANCELED request
\* does not take the user out).
C10_OffUsersContributeZero ==
    \A d \in ResultDays :
        LET day == result.days[d]
        IN  /\ day.assistantSupply =
                  SumOver([u \in NotOff("ASSISTANT", d) |-> assistantWeight(u)], NotOff("ASSISTANT", d))
            /\ day.rookieSupply =
                  SumOver([u \in NotOff("ROOKIE", d) |-> rookieWeight(u, d)], NotOff("ROOKIE", d))
            /\ day.designerDemand =
                  SumOver([u \in NotOff("DESIGNER", d) |-> designerWeight(u, d)], NotOff("DESIGNER", d))

\* C10 witness: on one date a designer's request is CANCELED (counted), the
\* assistant's is APPROVED and the rookie's PENDING (both left out)
C10_Witness ==
    /\ result.called
    /\ \E d \in ResultDays :
          /\ \E i \in DOMAIN leaveRequest : /\ leaveRequest[i].date = d
                                            /\ leaveRequest[i].userId = "d1"
                                            /\ leaveRequest[i].status = "CANCELED"
          /\ HasActiveLeave("a1", d) /\ HasActiveLeave("r1", d)
          /\ result.days[d].assistantSupply = 0 /\ result.days[d].rookieSupply = 0
          /\ result.days[d].designerDemand > 0

\* the number a config key holds, `dflt` when it holds none
CfgNumberOr(key, dflt) == IF config[key].t = "number" THEN config[key].n ELSE dflt

\* the flag a config key holds, `dflt` when it holds none
CfgFlagOr(key, dflt) == IF config[key].t = "boolean" THEN config[key].b ELSE dflt

\* what the rookie u is expected to supply on date d
ExpectedRookieSupply(u, d) ==
    IF <<u, d>> \in rookieBooking /\ CfgFlagOr("rookie_any_booking_supply_zero", TRUE)
    THEN CfgNumberOr("rookie_guest_supply", 0)
    ELSE IF users[u].baseSupply.set THEN users[u].baseSupply.v
    ELSE CfgNumberOr("rookie_support_supply", 7)

ListedClosedDates ==
    IF config["closed_dates"].t = "string" /\ config["closed_dates"].s = "list"
    THEN config["closed_dates"].days ELSE {}
ListedClosedWeekdays ==
    IF config["closed_weekdays"].t = "string" /\ config["closed_weekdays"].s = "list"
    THEN config["closed_weekdays"].wds ELSE {}

\* C12: for every requester role, a day has STORE_CLOSED in reasons exactly
\* when its date is listed in closed_dates or its weekday is listed in
\* closed_weekdays, whatever the quota and the phase; such a day is not
\* selectable.
C12_StoreClosedByDateOrWeekday ==
    \A d \in ResultDays :
        LET closed == d \in ListedClosedDates
                      \/ WeekdayCodes[CalendarWeekday(d)] \in ListedClosedWeekdays
        IN  /\ Has(result.days[d].reasons, "STORE_CLOSED") <=> closed
            /\ closed => ~result.days[d].selectable

\* the designers bound to user u that have no PENDING or APPROVED leave on d
WorkingMasters(u, d) ==
    {b.designerId : b \in {x \in binding : x.assistantId = u /\ ~HasActiveLeave(x.designerId, d)}}

\* C13: MASTER_WORKING_BLOCK is in a day's reasons iff the requester is an
\* ASSISTANT, assistant_block_if_master_working is true and at least one
\* designer bound to the requester has no PENDING or APPROVED leave on the
\* date; a day with that reason is not selectable.
C13_MasterWorkingBlock ==
    \A d \in ResultDays :
        LET blocked == /\ result.requester.role = "ASSISTANT"
                       /\ CfgFlagOr("assistant_block_if_master_working", TRUE)
                       /\ WorkingMasters(result.requester.userId, d) # {}
        IN  /\ Has(result.days[d].reasons, "MASTER_WORKING_BLOCK") <=> blocked
            /\ blocked => ~result.days[d].selectable

\* C13 witness: the assistant is bound to two designers, one off and one
\* working on the date, and the date carries MASTER_WORKING_BLOCK
C13_Witness ==
    /\ result.called /\ result.requester.userId = "a1"
    /\ \E d \in ResultDays :
          /\ {b.designerId : b \in {x \in binding : x.assistantId = "a1"}} = {"d1", "d2"}
          /\ HasActiveLeave("d1", d) /\ ~HasActiveLeave("d2", d)
          /\ Has(result.days[d].reasons, "MASTER_WORKING_BLOCK")
          /\ ~result.days[d].selectable

\* C14: myLeaveStatus of a day is the status of the requester's PENDING or
\* APPROVED request on the date, null when there is none; myLeaveCancelable is
\* true iff that request is PENDING and was created by the requester.
C14_MyLeaveStatus ==
    \A d \in ResultDays :
        LET me == result.requester.userId
            mine == {i \in DOMAIN leaveRequest :
                        /\ leaveRequest[i].userId = me /\ leaveRequest[i].date = d
                        /\ leaveRequest[i].status \in {"PENDING", "APPROVED"}}
            day == result.days[d]
        IN  IF mine = {}
            THEN day.myLeaveStatus = "null" /\ ~day.myLeaveCancelable
            ELSE \A i \in mine :
                    /\ day.myLeaveStatus = leaveRequest[i].status
                    /\ day.myLeaveCancelable <=>
                           ( /\ leaveRequest[i].status = "PENDING"
                             /\ leaveRequest[i].createdByUserId = me )

\* C14 witness: the assistant asks; the request on the date is the PENDING
\* mirror the designer created, reported PENDING and not cancelable
C14_Witness ==
    /\ result.called /\ result.requester.userId = "a1"
    /\ \E d \in ResultDays, i \in DOMAIN leaveRequest :
          /\ leaveRequest[i].userId = "a1" /\ leaveRequest[i].date = d
          /\ leaveRequest[i].status = "PENDING" /\ leaveRequest[i].source = "BINDING_MIRROR"
          /\ leaveRequest[i].createdByUserId = "d1"
          /\ result.days[d].myLeaveStatus = "PENDING"
          /\ ~result.days[d].myLeaveCancelable

\* C15: SATURDAY_BLOCK is in a day's reasons iff the requester is an
\* ASSISTANT, assistant_block_saturday is true and the date is a Saturday; a
\* day with that reason is not selectable.
C15_SaturdayBlock ==
    \A d \in ResultDays :
        LET blocked == /\ result.requester.role = "ASSISTANT"
                       /\ CfgFlagOr("assistant_block_saturday", TRUE)
                       /\ WeekdayCodes[CalendarWeekday(d)] = "SAT"
        IN  /\ Has(result.days[d].reasons, "SATURDAY_BLOCK") <=> blocked
            /\ blocked => ~result.days[d].selectable

\* C19: a call of getMonthAvailability leaves the store, config, users, leave
\* requests, approvals, bindings, demand overrides and rookie bookings as they
\* were; all it produces is the value it returns.
C19_AvailabilityReadOnly ==
    [][result' # result =>
          UNCHANGED <<store, config, users, leaveRequest, approval, binding,
                      demandOverride, rookieBooking>>]_vars

\* C19 witness: a call has returned, having used the fallback of a setting
\* without a row and read leave requests, overrides and bookings
C19_Witness ==
    /\ result.called
    /\ config["phase2_end_day"] = NoRow
    /\ DOMAIN leaveRequest # {} /\ demandOverride # {} /\ rookieBooking # {}
    /\ \E d \in ResultDays : result.days[d].offUsers # <<>>

\* what the designer u is expected to demand on date d
ExpectedDesignerDemand(u, d) ==
    IF \E o \in demandOverride : o.designerId = u /\ o.date = d
    THEN (CHOOSE o \in demandOverride : o.designerId = u /\ o.date = d).demand
    ELSE IF users[u].baseDemand.set THEN users[u].baseDemand.v
    ELSE CfgNumberOr("designer_default_demand", 10)

\* C24: a designer who is not off on the date adds to designerDemand the
\* override of that designer and date when one exists, also an override of 0;
\* otherwise the designer's baseDemand if set, else designer_default_demand.
C24_DesignerDemandOverride ==
    \A d \in ResultDays :
        result.days[d].designerDemand =
            SumOver([u \in NotOff("DESIGNER", d) |-> ExpectedDesignerDemand(u, d)],
                    NotOff("DESIGNER", d))

\* C24 witness: the designer with a baseDemand of 1.0 is not off on a date
\* that has an override of 0, and the date's designerDemand is what the other
\* designers demand
C24_Witness ==
    /\ result.called
    /\ \E d \in ResultDays :
          /\ [designerId |-> "d1", date |-> d, demand |-> 0] \in demandOverride
          /\ "d1" \in NotOff("DESIGNER", d)
          /\ users["d1"].baseDemand.set /\ users["d1"].baseDemand.v > 0
          /\ NotOff("DESIGNER", d) # {"d1"}
          /\ result.days[d].designerDemand =
                SumOver([u \in NotOff("DESIGNER", d) \ {"d1"} |-> ExpectedDesignerDemand(u, d)],
                        NotOff("DESIGNER", d) \ {"d1"})
          /\ result.days[d].designerDemand > 0

\* the codes that make a day unselectable for a requester of the role
BlockingCodes(role) ==
    {"PHASE_LOCK", "STORE_CLOSED", "SATURDAY_BLOCK", "MASTER_WORKING_BLOCK"}
        \cup (IF role = "DESIGNER" THEN {} ELSE {"QUOTA_FULL"})

\* C29: for every day and requester role, selectable is false exactly when
\* reasons holds a blocking code (PHASE_LOCK, STORE_CLOSED, SATURDAY_BLOCK,
\* MASTER_WORKING_BLOCK for everyone, QUOTA_FULL for every role but DESIGNER);
\* an unselectable day has a reason, and no code is in reasons twice.
C29_SelectableIffNoBlockingReason ==
    \A d \in ResultDays :
        LET day == result.days[d]
            n == Len(day.reasons)
        IN  /\ (~day.selectable) <=>
                   \E k \in 1..n : day.reasons[k] \in BlockingCodes(result.requester.role)
            /\ (~day.selectable) => n > 0
            /\ \A j \in 1..n, k \in 1..n : (j # k) => day.reasons[j] # day.reasons[k]

\* C29 witness: a designer asked, and a day is unselectable with the advisory
\* QUOTA_FULL listed next to a blocking code
C29_Witness ==
    /\ result.called /\ result.requester.role = "DESIGNER"
    /\ \E d \in ResultDays :
          /\ ~result.days[d].selectable
          /\ Has(result.days[d].reasons, "QUOTA_FULL")
          /\ Len(result.days[d].reasons) >= 2

====
